---- MODULE Spec2Model ----
(***************************************************************************)
(* Model of modulo/arquivo.py: Transaction, Account, Investment, Client.   *)
(*                                                                         *)
(* Money (Python float) is modelled by exact rationals [n, d] in lowest    *)
(* terms; every input used below is exactly representable as a float.      *)
(* datetime.now() is modelled by a day counter `now`; its .year and .month *)
(* components are derived from the counter.                                *)
(***************************************************************************)
EXTENDS Integers, Sequences, FiniteSets, TLC

(* ------------------------------ bounds -------------------------------- *)
\* Instants the model distinguishes within one calendar month
DaysPerMonth == 2
\* Last instant of each scenario
MaxTime == 5
ClientDays == 2
LedgerDays == 1
\* Transactions created, registrations made, entries of one update call
MaxTx == 2
MaxRegistered == 2
MaxAttrs == 2

(* ------------------------- program constants -------------------------- *)
MonthsPerYear == 12
SellCategory == 0

(* ------------------------- exact arithmetic --------------------------- *)
Abs(x) == IF x < 0 THEN -x ELSE x

RECURSIVE Gcd(_, _)
Gcd(a, b) == IF b = 0 THEN a ELSE Gcd(b, a % b)

Rat(n, d) ==
    LET g == Gcd(Abs(n), Abs(d))
        s == IF d < 0 THEN -1 ELSE 1
    IN  [n |-> (s * n) \div g, d |-> (s * d) \div g]

Zero == Rat(0, 1)
One == Rat(1, 1)
RatAdd(x, y) == Rat(x.n * y.d + y.n * x.d, x.d * y.d)
RatMul(x, y) == Rat(x.n * y.n, x.d * y.d)
RatInv(x) == Rat(x.d, x.n)

RECURSIVE RatPowNat(_, _)
RatPowNat(x, k) == IF k = 0 THEN One ELSE RatMul(x, RatPowNat(x, k - 1))

\* The ** operator: a negative exponent gives the reciprocal power.
RatPow(x, k) == IF k >= 0 THEN RatPowNat(x, k) ELSE RatInv(RatPowNat(x, -k))

(* ------------------------------ the clock ----------------------------- *)
\* The run starts on the first day of December of year 0.
StartMonth == MonthsPerYear
MonthIndex(t) == (StartMonth - 1) + (t \div DaysPerMonth)
\* datetime.year, datetime.month and datetime.day of the instant t
Year(t) == MonthIndex(t) \div MonthsPerYear
Month(t) == (MonthIndex(t) % MonthsPerYear) + 1
Day(t) == (t % DaysPerMonth) + 1

(* ------------------------------ inputs -------------------------------- *)
\* The callers open each account name once and buy each investment type once.
Amounts == {Rat(-1, 1), Zero, Rat(2, 1)}
Categories == {0, 1}
Descriptions == {""}
AccountNames == {"Conta Corrente", "Poupanca"}
InvTypes == {"Fundo"}
InvAmounts == {Rat(1, 1)}
Principals == {Rat(1, 1), Rat(4, 1)}
Rates == {Zero, Rat(1, 2)}
ClientName == "Alice"

\* None is the empty tuple, a supplied value v is <<v>>
None == <<>>
Some(v) == <<v>>

VARIABLES now, heap, accounts, invs, investments, calls, run, last

vars == <<now, heap, accounts, invs, investments, calls, run, last>>

(* ---------------------------- observations ---------------------------- *)
\* The last call whose result the caller holds: what it was given and what it
\* returned (none after a call that returns nothing the claims are about).
NoCall ==
    [op |-> "none", a |-> 0, i |-> 0, t |-> 0, start |-> 0, reads |-> <<>>,
     value |-> Zero, list |-> <<>>, alias |-> FALSE, filter |-> <<None, None, None>>,
     attrs |-> <<>>]

NoRun == [i |-> 0, a |-> 0, k |-> 0, B0 |-> Zero, L0 |-> 0]

(* ---------------------------- Transaction ----------------------------- *)
\* Transaction.__init__: the instance dictionary of a new Transaction
NewTransaction(amount, category, description, t) ==
    [k \in {"amount", "date", "category", "description"} |->
        CASE k = "amount" -> amount
          [] k = "date" -> t
          [] k = "category" -> category
          [] k = "description" -> description]

(* ------------------------------ Account ------------------------------- *)
\* Account.__init__
NewAccount(name) == [name |-> name, balance |-> Zero, transactions |-> <<>>]

\* add_transaction with `self.balance = amount` in place of `+=`
add_transaction_assign(a, amount, category, description) ==
    /\ heap' = Append(heap, NewTransaction(amount, category, description, now'))
    /\ accounts' = [accounts EXCEPT
                      ![a].transactions = Append(@, Len(heap) + 1),
                      ![a].balance = amount]
    /\ calls' = [calls EXCEPT ![a] = Append(@, [amount |-> amount, ret |-> Len(heap) + 1])]

\* Account.add_transaction on account a. The new Transaction is heap[Len(heap) + 1];
\* `calls` records the amount passed and the Transaction returned.
add_transaction(a, amount, category, description) ==
    /\ heap' = Append(heap, NewTransaction(amount, category, description, now'))
    /\ accounts' = [accounts EXCEPT
                      ![a].transactions = Append(@, Len(heap) + 1),
                      ![a].balance = RatAdd(@, amount)]
    /\ calls' = [calls EXCEPT ![a] = Append(@, [amount |-> amount, ret |-> Len(heap) + 1])]


\* hasattr(self, key): the instance dictionary, then the attributes of the class
\* (the methods defined at lines 16, 30 and 39)
ClassAttrs == {"__init__", "__str__", "update"}
hasattr(obj, key) == key \in DOMAIN obj \/ key \in ClassAttrs

\* Transaction.update(**attributes): setattr for every key hasattr accepts
update(obj, attributes) ==
    LET accepted == {k \in DOMAIN attributes : hasattr(obj, k)}
    IN  [k \in DOMAIN obj \cup accepted |->
            IF k \in accepted THEN attributes[k] ELSE obj[k]]

\* The truth value Python gives a filter argument: None is false, a datetime
\* is always true, an int is true unless it is 0.
TruthyDate(x) == x # None
TruthyInt(x) == x # None /\ x[1] # 0

\* Account.get_transactions: the ids it returns
get_transactions(a, start_date, end_date, category) ==
    LET r0 == accounts[a].transactions
        r1 == IF TruthyDate(start_date)
              THEN SelectSeq(r0, LAMBDA t : heap[t]["date"] >= start_date[1]) ELSE r0
        r2 == IF TruthyDate(end_date)
              THEN SelectSeq(r1, LAMBDA t : heap[t]["date"] <= end_date[1]) ELSE r1
        r3 == IF TruthyInt(category)
              THEN SelectSeq(r2, LAMBDA t : heap[t]["category"] = category[1]) ELSE r2
    IN  r3

\* Whether the list get_transactions returns is the ledger object itself:
\* `result = self.transactions` is rebound only by a filter that is applied.
returns_ledger(start_date, end_date, category) ==
    ~TruthyDate(start_date) /\ ~TruthyDate(end_date) /\ ~TruthyInt(category)

(* ----------------------------- Investment ----------------------------- *)
\* Investment.__init__
NewInv(type, amount, rate_of_return, t) ==
    [type |-> type, initial_amount |-> amount, date_purchased |-> t,
     rate_of_return |-> rate_of_return, client |-> ClientName]

\* months counted as whole elapsed months instead of calendar-month boundaries
months_elapsed(inv, tY, tM) == (tM - inv.date_purchased) \div DaysPerMonth

\* Line 146: the first datetime.now() is read at tY, the second at tM
months(inv, tY, tM) ==
    (Year(tY) - Year(inv.date_purchased)) * MonthsPerYear
        + (Month(tM) - Month(inv.date_purchased))

\* Investment.calculate_value
calculate_value(inv, tY, tM) ==
    RatMul(inv.initial_amount,
           RatPow(RatAdd(One, inv.rate_of_return), months(inv, tY, tM)))

\* The instants of the 2k clock reads of k successive calculate_value calls that
\* start at `now`, when the clock advances one day after the p-th read
\* (p = 2k: it does not advance during the calls).
ReadTimes(k, p) ==
    [j \in 1..k |-> [y |-> IF 2 * j - 1 > p THEN now + 1 ELSE now,
                     m |-> IF 2 * j > p THEN now + 1 ELSE now]]
EndOfReads(k, p) == IF p < 2 * k THEN now + 1 ELSE now

(* ------------------------------- Client ------------------------------- *)
RECURSIVE SumBalances(_)
SumBalances(n) ==
    IF n = 0 THEN Zero ELSE RatAdd(SumBalances(n - 1), accounts[n].balance)

RECURSIVE SumValues(_, _)
SumValues(n, reads) ==
    IF n = 0 THEN Zero
    ELSE RatAdd(SumValues(n - 1, reads),
                calculate_value(invs[investments[n]], reads[n].y, reads[n].m))

RECURSIVE SumAllValues(_)
SumAllValues(n) ==
    IF n = 0 THEN Zero
    ELSE RatAdd(SumAllValues(n - 1), calculate_value(invs[n], now, now))

\* get_net_worth counting every investment constructed for the client
get_net_worth_constructed(reads) ==
    RatAdd(SumBalances(Len(accounts)), SumAllValues(Len(invs)))

\* Client.get_net_worth, its calculate_value calls reading the clock at `reads`
get_net_worth(reads) ==
    RatAdd(SumBalances(Len(accounts)), SumValues(Len(investments), reads))

(* ------------------------------ actions ------------------------------- *)
Init ==
    /\ now = 0
    /\ heap = <<>>
    /\ accounts = <<>>
    /\ invs = <<>>
    /\ investments = <<>>
    /\ calls = <<>>
    /\ run = NoRun
    /\ last = NoCall

\* The clock advances by one day between two calls.
Tick(limit) ==
    /\ now < limit
    /\ now' = now + 1
    /\ run' = IF MonthIndex(now') = MonthIndex(now) THEN run ELSE NoRun
    /\ last' = NoCall
    /\ UNCHANGED <<heap, accounts, invs, investments, calls>>

\* Client.add_account
AddAccount(name) ==
    /\ \A a \in 1..Len(accounts) : accounts[a].name # name
    /\ accounts' = Append(accounts, NewAccount(name))
    /\ calls' = Append(calls, <<>>)
    /\ last' = NoCall
    /\ run' = NoRun
    /\ UNCHANGED <<now, heap, invs, investments>>

\* A direct call of Account.add_transaction
AddTransaction(a, amount, category, description) ==
    /\ Len(heap) < MaxTx
    /\ now' = now
    /\ add_transaction(a, amount, category, description)
    /\ last' = NoCall
    /\ run' = NoRun
    /\ UNCHANGED <<invs, investments>>

\* A call of Account.get_transactions; the caller holds the returned list
GetTransactions(a, start_date, end_date, category) ==
    /\ last' = [NoCall EXCEPT !.op = "get_transactions", !.a = a, !.start = now,
                              !.list = get_transactions(a, start_date, end_date, category),
                              !.alias = returns_ledger(start_date, end_date, category),
                              !.filter = <<start_date, end_date, category>>]
    /\ run' = NoRun
    /\ UNCHANGED <<now, heap, accounts, invs, investments, calls>>

\* A call of Transaction.update on transaction t; it raises TypeError, changing
\* nothing, once an earlier update has put a value in place of the method.
Update(t, attributes) ==
    /\ "update" \notin DOMAIN heap[t]
    /\ heap' = [heap EXCEPT ![t] = update(@, attributes)]
    /\ last' = [NoCall EXCEPT !.op = "update", !.t = t, !.start = now,
                              !.attrs = <<attributes>>]
    /\ run' = NoRun
    /\ UNCHANGED <<now, accounts, invs, investments, calls>>

\* Investment(type, amount, rate_of_return, client)
NewInvestment(type, amount, rate) ==
    /\ \A i \in 1..Len(invs) : invs[i].type # type
    /\ invs' = Append(invs, NewInv(type, amount, rate, now))
    /\ last' = NoCall
    /\ run' = NoRun
    /\ UNCHANGED <<now, heap, accounts, investments, calls>>

\* Client.add_investment
AddInvestment(i) ==
    /\ Len(investments) < MaxRegistered
    /\ investments' = Append(investments, i)
    /\ last' = NoCall
    /\ run' = NoRun
    /\ UNCHANGED <<now, heap, accounts, invs, calls>>

\* A direct call of Investment.calculate_value
CalculateValue(i, p, limit) ==
    /\ EndOfReads(1, p) <= limit
    /\ now' = EndOfReads(1, p)
    /\ last' = [NoCall EXCEPT !.op = "calculate_value", !.i = i, !.start = now,
                              !.reads = ReadTimes(1, p),
                              !.value = calculate_value(invs[i], ReadTimes(1, p)[1].y,
                                                        ReadTimes(1, p)[1].m)]
    /\ run' = NoRun
    /\ UNCHANGED <<heap, accounts, invs, investments, calls>>

\* The sells made in a row by one investment into one account within one
\* calendar month: how many, and the balance and ledger length before the first.
SellRun(i, a) ==
    IF MonthIndex(now') # MonthIndex(now) THEN NoRun
    ELSE IF run.k > 0 /\ run.i = i /\ run.a = a THEN [run EXCEPT !.k = @ + 1]
    ELSE [i |-> i, a |-> a, k |-> 1, B0 |-> accounts[a].balance,
          L0 |-> Len(accounts[a].transactions)]

\* sell crediting the principal instead of the current value
Sell_principal(i, a, p, limit) ==
    /\ Len(heap) < MaxTx
    /\ EndOfReads(1, p) <= limit
    /\ now' = EndOfReads(1, p)
    /\ LET current_value == calculate_value(invs[i], ReadTimes(1, p)[1].y,
                                            ReadTimes(1, p)[1].m)
       IN  /\ add_transaction(a, invs[i].initial_amount, SellCategory, "Venda de " \o invs[i].type)
           /\ last' = [NoCall EXCEPT !.op = "sell", !.i = i, !.a = a, !.t = Len(heap) + 1,
                                     !.start = now, !.reads = ReadTimes(1, p),
                                     !.value = current_value]
    /\ run' = SellRun(i, a)
    /\ UNCHANGED <<invs, investments>>

\* sell taking the investment off the client's list
Sell_consuming(i, a, p, limit) ==
    /\ Len(heap) < MaxTx
    /\ EndOfReads(1, p) <= limit
    /\ now' = EndOfReads(1, p)
    /\ LET current_value == calculate_value(invs[i], ReadTimes(1, p)[1].y,
                                            ReadTimes(1, p)[1].m)
       IN  /\ add_transaction(a, current_value, SellCategory, "Venda de " \o invs[i].type)
           /\ last' = [NoCall EXCEPT !.op = "sell", !.i = i, !.a = a, !.t = Len(heap) + 1,
                                     !.start = now, !.reads = ReadTimes(1, p),
                                     !.value = current_value]
    /\ run' = SellRun(i, a)
    /\ invs' = invs
    /\ investments' = SelectSeq(investments, LAMBDA x : x # i)

\* Investment.sell
Sell(i, a, p, limit) ==
    /\ Len(heap) < MaxTx
    /\ EndOfReads(1, p) <= limit
    /\ now' = EndOfReads(1, p)
    /\ LET current_value == calculate_value(invs[i], ReadTimes(1, p)[1].y,
                                            ReadTimes(1, p)[1].m)
       IN  /\ add_transaction(a, current_value, SellCategory, "Venda de " \o invs[i].type)
           /\ last' = [NoCall EXCEPT !.op = "sell", !.i = i, !.a = a, !.t = Len(heap) + 1,
                                     !.start = now, !.reads = ReadTimes(1, p),
                                     !.value = current_value]
    /\ run' = SellRun(i, a)
    /\ UNCHANGED <<invs, investments>>

\* Client.get_net_worth
GetNetWorth(p, limit) ==
    /\ EndOfReads(Len(investments), p) <= limit
    /\ now' = EndOfReads(Len(investments), p)
    /\ last' = [NoCall EXCEPT !.op = "get_net_worth", !.start = now,
                              !.reads = ReadTimes(Len(investments), p),
                              !.value = get_net_worth(ReadTimes(Len(investments), p))]
    /\ run' = NoRun
    /\ UNCHANGED <<heap, accounts, invs, investments, calls>>

(* ---------------------------- specifications -------------------------- *)
\* A client, its accounts and its investment from December into January
Next ==
    \/ Tick(ClientDays)
    \/ \E name \in AccountNames : AddAccount(name)
    \/ \E a \in 1..Len(accounts) : AddTransaction(a, Rat(2, 1), 1, "")
    \/ \E type \in InvTypes, amount \in InvAmounts :
          NewInvestment(type, amount, Rat(1, 2))
    \/ \E i \in 1..Len(invs) : AddInvestment(i)
    \/ \E i \in 1..Len(invs), a \in 1..Len(accounts), p \in 1..2 :
          Sell(i, a, p, ClientDays)
    \/ \E p \in 0..(2 * Len(investments)) :
          /\ p = 0 => investments = <<>>
          /\ GetNetWorth(p, ClientDays)

Spec == Init /\ [][Next]_vars

\* An investment valued over the months
NextValue ==
    \/ Tick(MaxTime)
    \/ \E type \in InvTypes, amount \in Principals, rate \in Rates :
          NewInvestment(type, amount, rate)
    \/ \E i \in 1..Len(invs), p \in 1..2 : CalculateValue(i, p, MaxTime)

SpecValue == Init /\ [][NextValue]_vars

\* Accounts that only receive add_transaction calls
NextAccount ==
    \/ Tick(LedgerDays)
    \/ \E name \in AccountNames : AddAccount(name)
    \/ \E a \in 1..Len(accounts), amount \in Amounts, c \in Categories, d \in Descriptions :
          AddTransaction(a, amount, c, d)

SpecAccount == Init /\ [][NextAccount]_vars

\* The ledger of an account: every call that reads or changes it
UpdateKeys == {"amount", "date", "category", "description", "update", "foo"}
UpdateValue(k) ==
    CASE k = "amount" -> Zero
      [] k = "category" -> 0
      [] k = "date" -> 0
      [] k = "description" -> "x"
      [] OTHER -> 0
FilterDates == {None, Some(1)}
FilterCategories == {None, Some(0), Some(1)}

NextLedger ==
    \/ Tick(LedgerDays)
    \/ \E name \in {"Conta Corrente"} : AddAccount(name)
    \/ \E a \in 1..Len(accounts), amount \in {Rat(2, 1)}, c \in Categories, d \in Descriptions :
          AddTransaction(a, amount, c, d)
    \/ \E a \in 1..Len(accounts), s \in FilterDates, e \in FilterDates, c \in FilterCategories :
          GetTransactions(a, s, e, c)
    \/ \E t \in 1..Len(heap), ks \in SUBSET UpdateKeys :
          /\ Cardinality(ks) <= MaxAttrs
          /\ Update(t, [k \in ks |-> UpdateValue(k)])
    \/ \E type \in InvTypes, amount \in InvAmounts :
          NewInvestment(type, amount, Rat(1, 2))
    \/ \E i \in 1..Len(invs), a \in 1..Len(accounts), p \in 1..2 : Sell(i, a, p, LedgerDays)

SpecLedger == Init /\ [][NextLedger]_vars
(* ----------------------------- properties ----------------------------- *)
RECURSIVE SumPassed(_, _)
SumPassed(cs, n) == IF n = 0 THEN Zero ELSE RatAdd(cs[n].amount, SumPassed(cs, n - 1))

\* C1: after any sequence of add_transaction calls on a new account (amounts
\* negative, zero or positive) the balance is the sum of the amounts passed, the
\* ledger holds one transaction per call in call order, and each call returned
\* the transaction it appended, which carries the amount passed.
C1_BalanceIsSumOfAmounts ==
    \A a \in 1..Len(accounts) :
        /\ accounts[a].balance = SumPassed(calls[a], Len(calls[a]))
        /\ Len(accounts[a].transactions) = Len(calls[a])
        /\ \A k \in 1..Len(calls[a]) :
              /\ accounts[a].transactions[k] = calls[a][k].ret
              /\ heap[calls[a][k].ret]["amount"] = calls[a][k].amount
        /\ \A k \in 1..(Len(calls[a]) - 1) : calls[a][k].ret < calls[a][k + 1].ret

C1_Witness ==
    \E a \in 1..Len(accounts) :
        /\ Len(calls[a]) >= 2
        /\ calls[a][1].amount = Rat(-1, 1)
        /\ calls[a][2].amount = Zero
        /\ accounts[a].balance = Rat(-1, 1)

\* C2: a sell into an account whose balance was B, the investment being worth V
\* at the clock reads of the call, leaves the balance at B + V and appends
\* exactly one new transaction, of amount V and category 0, at the end of that
\* account's ledger; every earlier transaction and every other account is unchanged.
C2_SellCreditsValue ==
    [][last'.op = "sell" =>
        LET a == last'.a
            n == Len(accounts[a].transactions)
            V == calculate_value(invs[last'.i], last'.reads[1].y, last'.reads[1].m)
        IN  /\ last'.start = now
            /\ accounts'[a].balance = RatAdd(accounts[a].balance, V)
            /\ Len(accounts'[a].transactions) = n + 1
            /\ SubSeq(accounts'[a].transactions, 1, n) = accounts[a].transactions
            /\ accounts'[a].transactions[n + 1] = Len(heap) + 1
            /\ Len(heap') = Len(heap) + 1
            /\ heap'[Len(heap) + 1]["amount"] = V
            /\ heap'[Len(heap) + 1]["category"] = 0
            /\ \A t \in 1..Len(heap) : heap'[t] = heap[t]
            /\ \A b \in 1..Len(accounts) : b # a => accounts'[b] = accounts[b]
            /\ Len(accounts') = Len(accounts)]_vars

C2_Witness ==
    /\ last.op = "sell"
    /\ last.value = Rat(3, 2)
    /\ Len(accounts[last.a].transactions) = 2
    /\ accounts[last.a].balance = Rat(7, 2)

RECURSIVE SumOver(_, _)
SumOver(S, f) ==
    IF S = {} THEN Zero
    ELSE LET x == CHOOSE y \in S : TRUE IN RatAdd(f[x], SumOver(S \ {x}, f))

\* C3: get_net_worth returns the sum of the current balances of the client's
\* accounts plus, for each registration made through add_investment, the
\* calculate_value() of the registered investment at the clock reads of the
\* call; an investment never registered adds nothing, and the result follows
\* the accounts and the clock as they are at the call.
C3_NetWorthIsSum ==
    last.op = "get_net_worth" =>
        /\ Len(last.reads) = Len(investments)
        /\ \A j \in 1..Len(last.reads) :
              last.start <= last.reads[j].y /\ last.reads[j].y <= last.reads[j].m
                  /\ last.reads[j].m <= now
        /\ last.value =
              RatAdd(SumOver(1..Len(accounts), [a \in 1..Len(accounts) |-> accounts[a].balance]),
                     SumOver(1..Len(investments),
                             [j \in 1..Len(investments) |->
                                 calculate_value(invs[investments[j]],
                                                 last.reads[j].y, last.reads[j].m)]))
        /\ (investments = <<>> =>
              last.value = SumOver(1..Len(accounts),
                                   [a \in 1..Len(accounts) |-> accounts[a].balance]))

C3_Witness ==
    /\ last.op = "get_net_worth"
    /\ Len(accounts) = 2
    /\ accounts[1].balance = Rat(2, 1)
    /\ accounts[2].balance = Rat(3, 2)
    /\ investments = <<1, 1>>
    /\ Month(last.start) = 1
    /\ last.value = Rat(13, 2)

RECURSIVE Compound(_, _, _)
Compound(x, f, m) == IF m = 0 THEN x ELSE Compound(RatMul(x, f), f, m - 1)

\* C5: calculate_value returns initial_amount * (1 + rate_of_return) ^ m with
\* m = (year read - purchase year) * 12 + (month read - purchase month), the day
\* of the month playing no part: a call made within the calendar month of the
\* purchase returns initial_amount exactly, and a call made within the next
\* calendar month returns initial_amount * (1 + rate_of_return), even one day
\* after the purchase.
C5_ValueIsCompounded ==
    last.op = "calculate_value" =>
        LET inv == invs[last.i]
            r == last.reads[1]
            m == (Year(r.y) - Year(inv.date_purchased)) * 12
                    + (Month(r.m) - Month(inv.date_purchased))
            f == RatAdd(One, inv.rate_of_return)
        IN  /\ (m >= 0 => last.value = Compound(inv.initial_amount, f, m))
            /\ (m < 0 => Compound(last.value, f, -m) = inv.initial_amount)
            /\ (m = 0 => last.value = inv.initial_amount)
            /\ (m = 1 => last.value = RatMul(inv.initial_amount, f))
            /\ (r.y = r.m /\ MonthIndex(r.m) = MonthIndex(inv.date_purchased)
                  => last.value = inv.initial_amount)
            /\ (r.y = r.m /\ MonthIndex(r.m) = MonthIndex(inv.date_purchased) + 1
                  => last.value = RatMul(inv.initial_amount, f))

C5_Witness ==
    /\ last.op = "calculate_value"
    /\ last.reads[1].y = last.reads[1].m
    /\ last.reads[1].m = invs[last.i].date_purchased + 1
    /\ Day(invs[last.i].date_purchased) = DaysPerMonth
    /\ invs[last.i].rate_of_return = Rat(1, 2)
    /\ last.value = Rat(6, 1)

\* The net worth of C3 at the instant t, of the accounts, investments and
\* registrations given
NetWorthAt(accts, ivs, regs, t) ==
    RatAdd(SumOver(1..Len(accts), [a \in 1..Len(accts) |-> accts[a].balance]),
           SumOver(1..Len(regs), [j \in 1..Len(regs) |-> calculate_value(ivs[regs[j]], t, t)]))

RunHolds(r, accts, ivs, t) ==
    r.k > 0 =>
        /\ accts[r.a].balance =
              RatAdd(r.B0, RatMul(Rat(r.k, 1), calculate_value(ivs[r.i], t, t)))
        /\ Len(accts[r.a].transactions) = r.L0 + r.k

\* C9: a sell changes neither the investment nor the client's investment list,
\* so it can be repeated: k sells in a row into one account within one calendar
\* month append k transactions and raise the balance by k * V, and each of them
\* raises the client's net worth by V.
C9_SellRepeats ==
    [][/\ RunHolds(run', accounts', invs', now')
       /\ last'.op = "sell" =>
            /\ invs' = invs
            /\ investments' = investments
            /\ (MonthIndex(now') = MonthIndex(now) =>
                  NetWorthAt(accounts', invs', investments', now')
                     = RatAdd(NetWorthAt(accounts, invs, investments, now),
                              calculate_value(invs[last'.i], now, now)))]_vars

C9_Witness ==
    /\ run.k = 2
    /\ last.op = "sell"
    /\ investments = <<run.i>>
    /\ Month(now) = 1
    /\ accounts[run.a].balance = Rat(3, 1)

\* C4: get_transactions(category=c), no date filter given, returns exactly the
\* ledger's transactions of category c, in insertion order, for every integer
\* c, 0 included.
C4_CategoryFilter ==
    (last.op = "get_transactions" /\ last.filter[1] = None /\ last.filter[2] = None
        /\ last.filter[3] # None)
    => last.list = SelectSeq(accounts[last.a].transactions,
                             LAMBDA t : heap[t]["category"] = last.filter[3][1])

Fields == {"amount", "date", "category", "description"}

\* C6: Transaction.update overwrites each supplied entry that names a field
\* (amount, date, category, description), drops every other entry without
\* creating an attribute, and leaves the fields not named as they were.
C6_UpdatePatchesFieldsOnly ==
    [][last'.op = "update" =>
          LET before == heap[last'.t]
              given == last'.attrs[1]
              after == heap'[last'.t]
          IN  /\ DOMAIN after = DOMAIN before
              /\ \A k \in Fields :
                    after[k] = IF k \in DOMAIN given THEN given[k] ELSE before[k]]_vars

RECURSIVE SumLedger(_, _)
SumLedger(txs, n) ==
    IF n = 0 THEN Zero ELSE RatAdd(SumLedger(txs, n - 1), heap[txs[n]]["amount"])

\* C7: in every reachable state the balance of every account equals the sum of
\* the amounts of the transactions in its ledger.
C7_BalanceMatchesLedger ==
    \A a \in 1..Len(accounts) :
        accounts[a].balance
            = SumLedger(accounts[a].transactions, Len(accounts[a].transactions))

\* C8: get_transactions, whatever filters are given or omitted, returns a list
\* that is not the account's own ledger object, and leaves the ledger and the
\* balance as they were.
C8_ReturnsNewList ==
    [][last'.op = "get_transactions" =>
          /\ ~last'.alias
          /\ accounts' = accounts
          /\ heap' = heap]_vars

\* C10: a calculate_value call that starts at or after the purchase uses a month
\* count that is >= 0 and is the calendar-month difference between the purchase
\* and some instant between the start and the return of the call.
C10_MonthsOfOneInstant ==
    last.op = "calculate_value" =>
        LET inv == invs[last.i]
            used == months(inv, last.reads[1].y, last.reads[1].m)
        IN  /\ used >= 0
            /\ \E t \in last.start..now :
                  used = MonthIndex(t) - MonthIndex(inv.date_purchased)
====
